---- MODULE Spec2Model ----
(***************************************************************************)
(* Reference-counted vertex store (ManagedVertexMap / Forest) and the      *)
(* copy-on-write Tree built on it (Tree::update and the operations         *)
(* derived from it).                                                       *)
(*                                                                         *)
(* A vertex is a record [payload, children]; children is the ordered list  *)
(* of child keys.  The vertex class itself (self_edge(), edges(children))  *)
(* is not part of the sources at hand: its key is modelled as a function   *)
(* of the vertex's content, so that a copy with another child list is a    *)
(* vertex under another key.  A key is the pair <<payload, children>>.     *)
(*                                                                         *)
(* A vertex iterator is modelled by the key of the map node it designates; *)
(* END is the past-the-end iterator.  An iterator whose node was erased    *)
(* dangles: reading through it is undefined behaviour, modelled as a       *)
(* choice (parameter uaf) between reading the stale node and a crash.      *)
(* A failed assertion and an erase of an invalid position crash.           *)
(*                                                                         *)
(* Spec runs whole calls; StepSpec runs Tree::update one loop iteration at *)
(* a time (variable call); StoreSpec runs the store's own operations and   *)
(* Pin objects (variable guards); RaceSpec runs the update calls of two    *)
(* Trees on one store, interleaved one loop iteration at a time (variable  *)
(* race); TravSpec runs the breadth-first, in-order and post-order         *)
(* traversals over a map from keys to link lists (variable walk).          *)
(***************************************************************************)
EXTENDS Integers, Sequences, FiniteSets, TLC

VARIABLES vertices, edges, trees, crashed, last, nops, call, guards, race,
          walk

vars == <<vertices, edges, trees, crashed, last, nops, call, guards, race, walk>>

(* ------------------------------ bounds -------------------------------- *)
MaxPayload == 2
MaxDeg == 2
MaxTrees == 2
MaxOps == 2
MaxVertices == 6
MaxStoreOps == 3
MaxGuards == 2
MaxSteps == 5
MaxLevels == 3
MaxDepth == 2
MaxVisits == 12
MaxIterations == 12

Payloads == 1..MaxPayload

(* ------------------------------ vertex -------------------------------- *)
MkVertex(p, c) == [payload |-> p, children |-> c]

\* a default vertex that lists a child
ChildedDefaultVertex == MkVertex(0, <<<<0, <<>>>>>>)

\* vertex_type{}: empty payload, no children
DefaultVertex == MkVertex(0, <<>>)

self_edge(v) == <<v.payload, v.children>>

\* the node a (possibly dangling) iterator designates, read as it was stored
Stale(k) == MkVertex(k[1], k[2])

\* vertex.edges(children): the copy with its child list replaced
SetEdges(v, children) == [v EXCEPT !.children = children]

END == <<-1, <<>>>>

Range(s) == {s[i] : i \in DOMAIN s}

RemoveAt(s, i) == SubSeq(s, 1, i - 1) \o SubSeq(s, i + 1, Len(s))

(* ------------------------- container helpers -------------------------- *)
\* std::find(...) == end(): true when value is NOT in the container
is_in(value, container) == value \notin Range(container)

insert_unique(value, container) ==
    IF value \notin Range(container) THEN Append(container, value) ELSE container

RECURSIVE unique_copy_from(_, _)
unique_copy_from(input, output) ==
    IF input = <<>> THEN output
    ELSE unique_copy_from(Tail(input),
             IF is_in(Head(input), output) THEN Append(output, Head(input))
             ELSE output)

unique_copy(input) == unique_copy_from(input, <<>>)

exclude_copy(exclude, input) == SelectSeq(input, LAMBDA value : value /= exclude)

(* ------------------------------- store -------------------------------- *)
\* The store threaded through the operators: S.vertices is the VertexMap,
\* S.edges the EdgeMap (pairs <<child, parent>>, equal keys in insertion
\* order), S.crashed whether the process died.
Store(vs, es, cr) == [vertices |-> vs, edges |-> es, crashed |-> cr]

Crash(S) == [S EXCEPT !.crashed = TRUE]

find(S, key) == IF key \in DOMAIN S.vertices THEN key ELSE END

count(S, key) == Cardinality({i \in DOMAIN S.edges : S.edges[i][1] = key})

equal_range(S, key) == SelectSeq(S.edges, LAMBDA e : e[1] = key)

\* ManagedVertexMap::find(edge): position of the first matching edge, 0 = end
find_edge(es, edge) ==
    IF edge \in Range(es)
    THEN CHOOSE i \in DOMAIN es : es[i] = edge /\ \A j \in 1..(i - 1) : es[j] /= edge
    ELSE 0

\* insert that stores the vertex and adds no edge
insert_vertex_only(S, v) ==
    IF self_edge(v) \in DOMAIN S.vertices THEN S
    ELSE [S EXCEPT !.vertices = (self_edge(v) :> v) @@ S.vertices]

\* ManagedVertexMap::insert: the flag of the pair it returns
insert_inserted(S, v) == self_edge(v) \notin DOMAIN S.vertices

\* ManagedVertexMap::insert / Forest::insert(node)
insert(S, v) ==
    LET key == self_edge(v)
        vs == IF key \in DOMAIN S.vertices THEN S.vertices
              ELSE (key :> v) @@ S.vertices
        es == S.edges \o [i \in 1..Len(v.children) |-> <<v.children[i], key>>]
    IN  [S EXCEPT !.vertices = vs, !.edges = es]

\* positions queued for the cascade after the edge at pos was erased:
\* later positions move down, the erased one is no longer valid (-1)
ShiftPos(q, pos) ==
    [i \in DOMAIN q |-> IF q[i] > pos THEN q[i] - 1
                        ELSE IF q[i] = pos THEN -1 ELSE q[i]]

\* ManagedVertexMap::erase(edge_iterator): the loop over to_visit
RECURSIVE erase_cascade(_, _)
erase_cascade(S, to_visit) ==
    IF to_visit = <<>> \/ S.crashed THEN S
    ELSE LET pos == Head(to_visit) IN
         IF pos <= 0 THEN Crash(S)
         ELSE LET child == S.edges[pos][1]
                  es == RemoveAt(S.edges, pos)
                  rest == ShiftPos(Tail(to_visit), pos)
                  S1 == [S EXCEPT !.edges = es]
              IN  IF count(S1, child) = 0 /\ child \in DOMAIN S.vertices
                  THEN LET vertex == S.vertices[child]
                           its == [i \in 1..Len(vertex.children) |->
                                      find_edge(es, <<vertex.children[i], child>>)]
                           vs == [k \in DOMAIN S.vertices \ {child} |-> S.vertices[k]]
                       IN  erase_cascade([S1 EXCEPT !.vertices = vs], rest \o its)
                  ELSE erase_cascade(S1, rest)

\* the loop of ManagedVertexMap::erase(edge_iterator) with its locals: the
\* store, to_visit, and the number of iterations made
Cascade(S, to_visit, rounds) == [S |-> S, to_visit |-> to_visit, rounds |-> rounds]

\* an iteration that leaves the edge in the index and its position queued
erase_cascade_step_keep_edge(C) == [C EXCEPT !.rounds = C.rounds + 1]

\* one iteration of the while loop of ManagedVertexMap::erase(edge_iterator)
erase_cascade_step(C) ==
    LET pos == Head(C.to_visit) IN
    IF pos <= 0 THEN Cascade(Crash(C.S), Tail(C.to_visit), C.rounds + 1)
    ELSE LET child == C.S.edges[pos][1]
             es == RemoveAt(C.S.edges, pos)
             rest == ShiftPos(Tail(C.to_visit), pos)
             S1 == [C.S EXCEPT !.edges = es]
         IN  IF count(S1, child) = 0 /\ child \in DOMAIN C.S.vertices
             THEN LET vertex == C.S.vertices[child]
                      its == [i \in 1..Len(vertex.children) |->
                                 find_edge(es, <<vertex.children[i], child>>)]
                      vs == [k \in DOMAIN C.S.vertices \ {child} |-> C.S.vertices[k]]
                  IN  Cascade([S1 EXCEPT !.vertices = vs], rest \o its, C.rounds + 1)
             ELSE Cascade(S1, rest, C.rounds + 1)

\* the loop, cut off after limit iterations
RECURSIVE erase_cascade_run(_, _)
erase_cascade_run(C, limit) ==
    IF C.to_visit = <<>> \/ C.S.crashed \/ C.rounds >= limit THEN C
    ELSE erase_cascade_run(erase_cascade_step(C), limit)

\* erase(edge) that removes the edge and looks no further
erase_edge_only(S, edge) ==
    LET pos == find_edge(S.edges, edge)
    IN  IF pos = 0 THEN S ELSE [S EXCEPT !.edges = RemoveAt(S.edges, pos)]

\* ManagedVertexMap::erase(const edge_type&) / Forest::erase(link)
erase_edge(S, edge) ==
    LET pos == find_edge(S.edges, edge)
    IN  IF pos = 0 THEN S ELSE erase_cascade(S, <<pos>>)

RECURSIVE erase_child_edges(_, _, _)
erase_child_edges(S, children, key) ==
    IF children = <<>> \/ S.crashed THEN S
    ELSE erase_child_edges(erase_edge(S, <<Head(children), key>>), Tail(children), key)

\* the order of the keys in the VertexMap: by payload, then by child list
RECURSIVE KeyLess(_, _)
KeyLess(a, b) ==
    LET SeqLess[i \in Nat] ==
            IF i > Len(b[2]) THEN FALSE
            ELSE IF i > Len(a[2]) THEN TRUE
            ELSE IF KeyLess(a[2][i], b[2][i]) THEN TRUE
            ELSE IF KeyLess(b[2][i], a[2][i]) THEN FALSE
            ELSE SeqLess[i + 1]
    IN  IF a[1] /= b[1] THEN a[1] < b[1] ELSE SeqLess[1]

\* the iterator following pos: what vertices_.erase(pos) returns
Following(vs, pos) ==
    LET after == {k \in DOMAIN vs : KeyLess(pos, k)}
    IN  IF after = {} THEN END
        ELSE CHOOSE k \in after : \A j \in after \ {k} : KeyLess(k, j)

\* erase(iterator) that removes the edges to the children in any case
erase_child_edges_always(S, pos) ==
    IF S.crashed THEN S
    ELSE IF pos \notin DOMAIN S.vertices THEN Crash(S)
    ELSE LET S1 == erase_child_edges(S, S.vertices[pos].children, pos)
         IN  IF S1.crashed \/ count(S, pos) /= 0 THEN S1
             ELSE [S1 EXCEPT !.vertices =
                      [k \in DOMAIN S1.vertices \ {pos} |-> S1.vertices[k]]]

\* erase(iterator) without the test of the reference count
erase_unchecked(S, pos) ==
    IF S.crashed THEN S
    ELSE IF pos \notin DOMAIN S.vertices THEN Crash(S)
    ELSE LET S1 == erase_child_edges(S, S.vertices[pos].children, pos)
         IN  IF S1.crashed THEN S1
             ELSE [S1 EXCEPT !.vertices =
                      [k \in DOMAIN S1.vertices \ {pos} |-> S1.vertices[k]]]

\* ManagedVertexMap::erase(iterator)
erase(S, pos) ==
    IF S.crashed THEN S
    ELSE IF pos \notin DOMAIN S.vertices THEN Crash(S)
    ELSE IF count(S, pos) = 0
         THEN LET S1 == erase_child_edges(S, S.vertices[pos].children, pos)
              IN  IF S1.crashed THEN S1
                  ELSE [S1 EXCEPT !.vertices =
                           [k \in DOMAIN S1.vertices \ {pos} |-> S1.vertices[k]]]
         ELSE S

\* the iterator ManagedVertexMap::erase(iterator) returns
erase_result(S, pos) ==
    IF S.crashed \/ pos \notin DOMAIN S.vertices THEN END
    ELSE IF count(S, pos) = 0 THEN Following(erase(S, pos).vertices, pos)
    ELSE pos

\* clear that drops the vertices and keeps the edges
clear_vertices_only(S) == [S EXCEPT !.vertices = <<>>]

\* ManagedVertexMap::clear / Forest::clear
clear(S) == [S EXCEPT !.edges = <<>>, !.vertices = <<>>]

\* Forest::insert(link): the edge is added unless it is already there
insert_edge(S, edge) ==
    IF edge[1] \notin DOMAIN S.vertices \/ edge[2] \notin DOMAIN S.vertices
    THEN Crash(S)
    ELSE IF find_edge(S.edges, edge) = 0
         THEN [S EXCEPT !.edges = Append(S.edges, edge)]
         ELSE S

\* Forest::insert(link): the flag of the pair it returns
insert_edge_inserted(S, edge) == find_edge(S.edges, edge) = 0

(* -------------------------------- Tree -------------------------------- *)
\* reading through an iterator: the stored vertex, or the stale node
Deref(S, it) == IF it \in DOMAIN S.vertices THEN S.vertices[it] ELSE Stale(it)

Dangling(S, it) == it /= END /\ it \notin DOMAIN S.vertices

\* a set that keeps the replacement recorded first
MappingSet_keep_first(map, input, output) ==
    IF input /= output THEN map @@ (input :> output) ELSE map

\* Tree::Mapping::set
MappingSet(map, input, output) ==
    IF input /= output THEN (input :> output) @@ map ELSE map

\* Tree::Mapping::get
MappingGet(S, map, input) ==
    IF input \in DOMAIN map THEN find(S, map[input]) ELSE input

\* the state of one Tree::update call: the store, this Tree's root_, the
\* to_visit queue, the keys of the attached pins, the Mapping updated,
\* whether the call has read through a dangling iterator, and the calls of
\* updated.set made so far, as pairs <<input, output>>
Loop(S, root, q, pins, map) ==
    [S |-> S, root |-> root, to_visit |-> q, pins |-> pins, updated |-> map,
     ub |-> FALSE, sets |-> <<>>]

\* Tree::root(vertex_iterator)
SetRoot(L, value) ==
    [L EXCEPT !.root = value, !.S = erase(L.S, L.root)]

\* an enqueue_parents that does not look at the parent's reference count
enqueue_parents_any_parent(L, value, edge) ==
    LET child == find(L.S, edge[1])
        parent == find(L.S, edge[2])
    IN  IF L.S.crashed THEN L
        ELSE IF parent = END \/ child = END THEN [L EXCEPT !.S = Crash(L.S)]
        ELSE IF /\ child /= L.root
                /\ parent /= self_edge(value)
                /\ edge[2] \notin Range(value.children)
             THEN [L EXCEPT !.to_visit = Append(L.to_visit, <<child, parent>>)]
             ELSE L

\* the lambda enqueue_parents of Tree::update, for one edge
enqueue_parents(L, value, edge) ==
    LET child == find(L.S, edge[1])
        parent == find(L.S, edge[2])
        grandparents == count(L.S, edge[2])
    IN  IF L.S.crashed THEN L
        ELSE IF parent = END \/ child = END THEN [L EXCEPT !.S = Crash(L.S)]
        ELSE IF /\ child /= L.root
                /\ parent /= self_edge(value)
                /\ edge[2] \notin Range(value.children)
                /\ (grandparents /= 0 \/ (grandparents = 0 /\ parent = L.root))
             THEN [L EXCEPT !.to_visit = Append(L.to_visit, <<child, parent>>)]
             ELSE L

RECURSIVE for_each_enqueue(_, _, _)
for_each_enqueue(L, value, range) ==
    IF range = <<>> THEN L
    ELSE for_each_enqueue(enqueue_parents(L, value, Head(range)), value, Tail(range))

\* Tree::Pin::Pin appended to pins, unless the last pin holds the same key
PinChild(L, key) ==
    IF L.pins = <<>> \/ key /= L.pins[Len(L.pins)]
    THEN [L EXCEPT !.pins = Append(L.pins, key),
                   !.S = insert_edge(L.S, <<key, key>>)]
    ELSE L

\* an iteration that writes the rebuilt child list into the stored parent
update_step_in_place(L, value, uaf) ==
    LET source_child == L.to_visit[1][1]
        source_parent == L.to_visit[1][2]
        L0 == [L EXCEPT !.to_visit = Tail(L.to_visit)]
        target_parent == MappingGet(L.S, L.updated, source_parent)
        target_child == MappingGet(L.S, L.updated, source_child)
    IN  IF target_parent \notin DOMAIN L.S.vertices \/ target_child = END THEN L0
        ELSE LET children == insert_unique(target_child,
                                 exclude_copy(source_child,
                                              L.S.vertices[target_parent].children))
                 vertex == SetEdges(L.S.vertices[target_parent], children)
             IN  [L0 EXCEPT !.S.vertices = (target_parent :> vertex) @@ L.S.vertices]

\* an iteration that leaves its pair on the queue and does nothing
update_step_idle(L, value, uaf) == L

\* one iteration of the while loop of Tree::update
update_step(L, value, uaf) ==
    LET source_child == L.to_visit[1][1]
        source_parent == L.to_visit[1][2]
        S == L.S
        mapped(it) == it \in DOMAIN L.updated
        bad == \/ Dangling(S, source_parent)
               \/ Dangling(S, source_child)
               \/ (mapped(source_parent) /\ Dangling(S, L.updated[source_parent]))
               \/ (mapped(source_child) /\ Dangling(S, L.updated[source_child]))
        L0 == [L EXCEPT !.to_visit = Tail(L.to_visit), !.ub = L.ub \/ bad]
        target_parent == MappingGet(S, L.updated, source_parent)
        target_child == MappingGet(S, L.updated, source_child)
    IN  IF bad /\ uaf = "crash" THEN [L0 EXCEPT !.S = Crash(S)]
        ELSE IF target_parent = END \/ target_child = END THEN L0
        ELSE
          LET L1 == PinChild(L0, target_child)
              children == insert_unique(target_child,
                              exclude_copy(source_child,
                                           Deref(L1.S, target_parent).children))
              vertex == SetEdges(Deref(L1.S, target_parent), children)
              inserted_parent == self_edge(vertex)
              L2 == [L1 EXCEPT !.S = insert(L1.S, vertex)]
              range == equal_range(L2.S, source_parent)
          IN  IF L1.S.crashed THEN L1
              ELSE IF L2.root = target_parent THEN SetRoot(L2, inserted_parent)
              ELSE LET L3 == for_each_enqueue(L2, value, range)
                   IN  IF L3.S.crashed THEN L3
                       ELSE IF Len(L3.to_visit) = Len(L2.to_visit)
                       THEN [L3 EXCEPT !.S = erase(L3.S, inserted_parent),
                                       !.updated = MappingSet(L3.updated, source_parent,
                                                              target_parent),
                                       !.sets = Append(L3.sets, <<source_parent,
                                                                  target_parent>>)]
                       ELSE [L3 EXCEPT !.updated = MappingSet(L3.updated, source_parent,
                                                              inserted_parent),
                                       !.sets = Append(L3.sets, <<source_parent,
                                                                  inserted_parent>>)]

RECURSIVE update_loop(_, _, _)
update_loop(L, value, uaf) ==
    IF L.to_visit = <<>> \/ L.S.crashed THEN L
    ELSE update_loop(update_step(L, value, uaf), value, uaf)

\* Tree::Pin::~Pin for every element of pins, in the order given
RECURSIVE release_pins(_, _)
release_pins(S, pins) ==
    IF pins = <<>> \/ S.crashed THEN S
    ELSE release_pins(erase_edge(S, <<Head(pins), Head(pins)>>), Tail(pins))

Reverse(s) == [i \in 1..Len(s) |-> s[Len(s) + 1 - i]]

\* Tree::update up to the while loop
update_begin(S, root, source, value) ==
    LET S1 == insert(S, value)
        target == self_edge(value)
        L1 == [Loop(S1, root, <<>>, <<>>, MappingSet(<<>>, source, target))
                  EXCEPT !.sets = <<<<source, target>>>>]
        L2 == for_each_enqueue(L1, value, equal_range(S1, source))
    IN  IF L2.S.crashed THEN L2
        ELSE IF source = root THEN SetRoot(L2, target)
        ELSE L2

\* Tree::update until the queue is empty
update_run(S, root, source, value, uaf) ==
    update_loop(update_begin(S, root, source, value), value, uaf)

\* the return of Tree::update: the vector pins is destroyed, its elements
\* first to last (order = "fwd") or last to first ("rev")
update_end(L, order) ==
    LET pins == IF order = "fwd" THEN L.pins ELSE Reverse(L.pins)
    IN  IF L.S.crashed THEN L
        ELSE [L EXCEPT !.S = release_pins(L.S, pins), !.pins = <<>>]

UafOutcomes == {"stale", "crash"}
PinOrders == {"fwd", "rev"}

\* Tree::update: the states it can return in (or die in)
update(S, root, source, value) ==
    LET L == update_run(S, root, source, value, "stale")
        done == {update_end(L, order) : order \in PinOrders}
    IN  IF L.ub
        THEN done \cup {update_run(S, root, source, value, uaf) : uaf \in UafOutcomes \ {"stale"}}
        ELSE done

\* Tree::empty
empty(S, root) == Deref(S, root).children = <<>>

\* Tree::insert(parent, child) and Tree::insert(parent, edge): the new value
InsertValue(S, parent, key) ==
    SetEdges(Deref(S, parent),
             insert_unique(key, unique_copy(Deref(S, parent).children)))

\* Tree::erase(parent, child): the new value
EraseValue(S, parent, child) ==
    SetEdges(Deref(S, parent), exclude_copy(child, Deref(S, parent).children))

(* ------------------------------ traversals ----------------------------- *)
\* A traversal walks a std::map from keys to nodes; a node is modelled by
\* its list of links (child keys).  A vertex iterator is the key of the map
\* node it designates, PastEnd is vertices().end() and NullKey is
\* key_type{}, which no container stores.
PastEnd == -1

NullKey == 0

\* vertices().find(key)
lookup(c, key) == IF key \in DOMAIN c THEN key ELSE PastEnd

\* position()->second.links()
links(c, pos) == c[pos]

\* NullaryPredicate<Container, true>
AcceptAll == [kind |-> "all", n |-> 0, set |-> {}]

\* MaxDepthPredicate(max_depth)
MaxDepthPredicate(max_depth) == [kind |-> "maxdepth", n |-> max_depth, set |-> {}]

\* a predicate that accepts the edges whose target is in the set
TargetIn(set) == [kind |-> "targets", n |-> 0, set |-> set]

\* a predicate that accepts the edges whose source is in the set
SourceIn(set) == [kind |-> "sources", n |-> 0, set |-> set]

\* MaxDepthPredicate::operator(): the depth recorded for the edge's source
SourceDepth(sources, e) == IF e[1] \in DOMAIN sources THEN sources[e[1]] ELSE 0

\* the predicate's answer for edge e = <<source, target>>
isTraversible(w, e) ==
    CASE w.pred.kind = "all" -> TRUE
      [] w.pred.kind = "targets" -> e[2] \in w.pred.set
      [] w.pred.kind = "sources" -> e[1] \in w.pred.set
      [] w.pred.kind = "maxdepth" -> SourceDepth(w.sources, e) < w.pred.n

\* a predicate that records no depth
asked_nothing(w, e) == w

\* the traversal after its predicate was asked about e: MaxDepthPredicate
\* records the depths of source and target, where none is recorded yet
asked(w, e) ==
    IF w.pred.kind /= "maxdepth" THEN w
    ELSE LET depth == SourceDepth(w.sources, e)
             s1 == IF e[1] \in DOMAIN w.sources THEN w.sources
                   ELSE (e[1] :> depth) @@ w.sources
             s2 == IF e[2] \in DOMAIN s1 THEN s1 ELSE (e[2] :> depth + 1) @@ s1
         IN  [w EXCEPT !.sources = s2]

\* if (isTraversible(e)) to_visit_.push(e)
push_if_traversible(w, e) ==
    IF isTraversible(w, e)
    THEN [asked(w, e) EXCEPT !.to_visit = Append(w.to_visit, e)]
    ELSE asked(w, e)

\* the base class after its constructor: positioned on root, nothing queued
Traversal(kind, c, root, pred) ==
    [kind |-> kind, vs |-> c, root |-> root, pred |-> pred, sources |-> <<>>,
     position |-> root, mark |-> root, to_visit |-> <<>>, result |-> FALSE,
     out |-> <<>>, steps |-> 0]

\* breadth_first_traversal::next, the for loop over the links of position()
RECURSIVE bfs_push(_, _, _)
bfs_push(w, pos, children) ==
    IF children = <<>> THEN w
    ELSE bfs_push(push_if_traversible(w, <<pos, Head(children)>>), pos,
                  Tail(children))

\* a loop that gives up at the first queued edge whose target is not stored
bfs_pop_once(w) ==
    IF w.to_visit = <<>> THEN w
    ELSE [w EXCEPT !.to_visit = Tail(w.to_visit),
                   !.position = lookup(w.vs, Head(w.to_visit)[2]),
                   !.result = lookup(w.vs, Head(w.to_visit)[2]) /= PastEnd]

\* breadth_first_traversal::next, the while loop over to_visit_
RECURSIVE bfs_pop(_)
bfs_pop(w) ==
    IF w.to_visit = <<>> THEN w
    ELSE LET edge == Head(w.to_visit)
             w1 == [w EXCEPT !.to_visit = Tail(w.to_visit),
                             !.position = lookup(w.vs, edge[2])]
         IN  IF w1.position /= PastEnd THEN [w1 EXCEPT !.result = TRUE]
             ELSE bfs_pop(w1)

\* a next() that queues the links of position() last to first
breadth_first_next_reversed(w) ==
    LET w0 == [w EXCEPT !.result = FALSE]
        w1 == IF w.position /= PastEnd
              THEN bfs_push(w0, w.position, Reverse(links(w.vs, w.position)))
              ELSE w0
    IN  bfs_pop(w1)

\* breadth_first_traversal::next
breadth_first_next(w) ==
    LET w0 == [w EXCEPT !.result = FALSE]
        w1 == IF w.position /= PastEnd
              THEN bfs_push(w0, w.position, links(w.vs, w.position))
              ELSE w0
    IN  bfs_pop(w1)

\* InOrderTraversal::next, the descent to the bottom of the left branch
RECURSIVE in_order_left(_, _)
in_order_left(w, child) ==
    IF child /= PastEnd /\ Len(links(w.vs, child)) = 2
    THEN LET key == links(w.vs, child)[1]
             next_child == lookup(w.vs, key)
             w1 == IF next_child /= PastEnd
                   THEN push_if_traversible(w, <<child, key>>)
                   ELSE w
         IN  in_order_left(w1, next_child)
    ELSE w

\* InOrderTraversal::next; mark is next_position_, the top of the stack
\* to_visit_ is the last element
in_order_next(w) ==
    IF w.to_visit = <<>> THEN [w EXCEPT !.result = FALSE]
    ELSE LET w1 == in_order_left(w, w.mark)
             edge == w1.to_visit[Len(w1.to_visit)]
             child == lookup(w.vs, edge[2])
             next_position == IF child /= PastEnd THEN child ELSE w1.mark
             w2 == [w1 EXCEPT !.to_visit = SubSeq(w1.to_visit, 1, Len(w1.to_visit) - 1),
                              !.mark = next_position,
                              !.position = next_position,
                              !.result = TRUE]
         IN  IF Len(links(w.vs, next_position)) = 2
             THEN LET link == links(w.vs, next_position)[2]
                      right == lookup(w.vs, link)
                      e == <<next_position, link>>
                  IN  IF right = PastEnd THEN w2
                      ELSE IF isTraversible(w2, e)
                      THEN [push_if_traversible(w2, e) EXCEPT !.mark = right]
                      ELSE asked(w2, e)
             ELSE w2

\* InOrderTraversal::InOrderTraversal
InOrderTraversal(c, root, pred) ==
    LET w == Traversal("in", c, root, pred)
    IN  IF root /= PastEnd
        THEN in_order_next([w EXCEPT !.to_visit = <<<<NullKey, root>>>>])
        ELSE w

\* PostOrderTraversal::traverseLeft, the while loop; mark is prev_pos_ and
\* result is moved
RECURSIVE post_order_left(_)
post_order_left(w) ==
    IF Len(links(w.vs, w.position)) = 2
    THEN LET left_key == links(w.vs, w.position)[1]
             right_child == lookup(w.vs, links(w.vs, w.position)[2])
             left_child == lookup(w.vs, left_key)
             left_edge == <<w.position, left_key>>
         IN  IF right_child = w.mark \/ left_child = w.mark \/ left_child = PastEnd
             THEN [w EXCEPT !.result = FALSE]
             ELSE IF ~isTraversible(w, left_edge)
             THEN [asked(w, left_edge) EXCEPT !.result = FALSE]
             ELSE post_order_left([push_if_traversible(w, left_edge) EXCEPT
                                      !.position = left_child, !.result = TRUE])
    ELSE w

\* PostOrderTraversal::traverseLeft
traverseLeft(w) ==
    LET w1 == post_order_left([w EXCEPT !.result = FALSE])
    IN  IF w1.result
        THEN [w1 EXCEPT !.to_visit = SubSeq(w1.to_visit, 1, Len(w1.to_visit) - 1)]
        ELSE w1

\* a traverseRight that never moves
traverseRight_never(w) == [w EXCEPT !.result = FALSE]

\* PostOrderTraversal::traverseRight
traverseRight(w) ==
    LET w0 == [w EXCEPT !.result = FALSE]
    IN  IF Len(links(w.vs, w.position)) = 2
        THEN LET child_key == links(w.vs, w.position)[2]
                 child_vertex == lookup(w.vs, child_key)
                 child_edge == <<w.position, child_key>>
             IN  IF child_vertex = PastEnd \/ child_vertex = w.mark THEN w0
                 ELSE IF isTraversible(w0, child_edge)
                 THEN [push_if_traversible(w0, child_edge) EXCEPT
                          !.position = child_vertex, !.result = TRUE]
                 ELSE asked(w0, child_edge)
        ELSE w0

\* PostOrderTraversal::next, the while loop
RECURSIVE post_order_loop(_, _)
post_order_loop(w, moved) ==
    IF w.to_visit = <<>> THEN [w EXCEPT !.result = moved]
    ELSE IF ~moved
    THEN post_order_loop([w EXCEPT !.position =
                             lookup(w.vs, w.to_visit[Len(w.to_visit)][2])], TRUE)
    ELSE LET l == traverseLeft(w)
         IN  IF l.result THEN [l EXCEPT !.result = TRUE]
             ELSE LET r == traverseRight(l)
                  IN  IF r.result THEN post_order_loop(r, TRUE)
                      ELSE [r EXCEPT !.to_visit = SubSeq(r.to_visit, 1,
                                                         Len(r.to_visit) - 1),
                                     !.result = moved]

\* PostOrderTraversal::next
post_order_next(w) == post_order_loop([w EXCEPT !.mark = w.position], FALSE)

\* PostOrderTraversal::PostOrderTraversal
PostOrderTraversal(c, root, pred) ==
    LET w == [Traversal("post", c, root, pred) EXCEPT !.mark = PastEnd]
    IN  IF root /= PastEnd
        THEN post_order_next([w EXCEPT !.to_visit = <<<<NullKey, root>>>>])
        ELSE w

\* breadth_first_traversal's inherited constructor
breadth_first_traversal(c, root, pred) == Traversal("bfs", c, root, pred)

\* operator++ of the traversal base class: the derived next(), and the end
\* position when next() tells that nothing is left; out records the
\* vertices a range-for loop is handed
next(w) ==
    CASE w.kind = "bfs" -> breadth_first_next(w)
      [] w.kind = "in" -> in_order_next(w)
      [] w.kind = "post" -> post_order_next(w)

increment(w) ==
    LET n == next(w)
    IN  IF n.result
        THEN [n EXCEPT !.out = Append(w.out, n.position), !.steps = w.steps + 1]
        ELSE [n EXCEPT !.position = PastEnd, !.steps = w.steps + 1]

\* begin(): the traversal as constructed, about to hand out its position
begin(w) ==
    [w EXCEPT !.out = IF w.position = PastEnd THEN <<>> ELSE <<w.position>>]

\* the containers walked: binary trees of up to MaxLevels levels whose
\* vertices are numbered as in a heap (children of k: 2k and 2k + 1).  A
\* vertex without children has no links; a vertex with one child has two
\* links, the missing one being NullKey (blank = "null") or the key of a
\* vertex that is not stored (blank = "gone")
Positions(levels) == 1..(2 ^ levels - 1)

Shapes(levels) ==
    {N \in SUBSET Positions(levels) :
        1 \in N /\ \A k \in N \ {1} : (k \div 2) \in N}

Blanks == {"null", "gone"}

BinaryTree(N, blank) ==
    [k \in N |->
        IF 2 * k \notin N /\ 2 * k + 1 \notin N THEN <<>>
        ELSE LET slot(c) == IF c \in N THEN c
                            ELSE IF blank = "gone" THEN c ELSE NullKey
             IN  <<slot(2 * k), slot(2 * k + 1)>>]

\* the fixture tree of the tests: F -> [B, G], B -> [A, D], D -> [C, E],
\* G -> ["", I], I -> [H, ""]
Letter ==
    (1 :> "F" @@ 2 :> "B" @@ 3 :> "G" @@ 4 :> "A" @@ 5 :> "D" @@ 7 :> "I"
       @@ 10 :> "C" @@ 11 :> "E" @@ 14 :> "H")

tree == BinaryTree(DOMAIN Letter, "null")

KeyOf(letter) == CHOOSE k \in DOMAIN Letter : Letter[k] = letter

\* the container of the test BredthFirstTraversal: A -> [B, C, D]
fan == (1 :> <<2, 3, 4>> @@ 2 :> <<>> @@ 3 :> <<>> @@ 4 :> <<>>)

Containers ==
    {BinaryTree(N, blank) : N \in Shapes(MaxLevels), blank \in Blanks}
        \cup {tree, fan, <<>>}

Predicates(c) ==
    {AcceptAll} \cup {MaxDepthPredicate(n) : n \in 0..MaxDepth}
        \cup IF Cardinality(DOMAIN c) < 2 ^ MaxLevels
             THEN {TargetIn(T) : T \in SUBSET DOMAIN c}
                     \cup {SourceIn(T) : T \in SUBSET DOMAIN c}
             ELSE {TargetIn({KeyOf("F"), KeyOf("G"), KeyOf("I")}),
                   SourceIn({KeyOf("F")})}

Kinds == {"bfs", "in", "post"}

\* the traversal a client constructs over container c, from a stored vertex
\* or from end(), with a predicate
Construct(kind, c, root, pred) ==
    CASE kind = "bfs" -> begin(breadth_first_traversal(c, root, pred))
      [] kind = "in" -> begin(InOrderTraversal(c, root, pred))
      [] kind = "post" -> begin(PostOrderTraversal(c, root, pred))

NoWalk == begin(breadth_first_traversal(<<>>, PastEnd, AcceptAll))

(* --------------------------- initial stores --------------------------- *)
RECURSIVE insert_all(_, _)
insert_all(S, vs) ==
    IF vs = <<>> THEN S ELSE insert_all(insert(S, Head(vs)), Tail(vs))

EmptyStore == Store(<<>>, <<>>, FALSE)

Leaf(p) == MkVertex(p, <<>>)
Node(p, cs) == MkVertex(p, [i \in DOMAIN cs |-> self_edge(cs[i])])

\* root A -> [B, C], B -> [D], and a leaf E not yet linked
vD == Leaf(1)
vC == Leaf(2)
vE == Leaf(3)
vB == Node(4, <<vD>>)
vA == Node(5, <<vB, vC>>)
kA == self_edge(vA)
kB == self_edge(vB)
kC == self_edge(vC)
kD == self_edge(vD)
kE == self_edge(vE)

\* a shared leaf: root P -> [Q, R], Q -> [D], R -> [D]
vQ == Node(4, <<vD>>)
vR == Node(6, <<vD>>)
vP == Node(5, <<vQ, vR>>)
kP == self_edge(vP)
kQ == self_edge(vQ)
kR == self_edge(vR)

\* the same below a grandparent that is not the root: T -> [P]
vT == Node(7, <<vP>>)
kT == self_edge(vT)

\* what the client built before the operations of a run: the vertices it
\* inserted, in order, and the roots it constructed Trees on
Builds ==
    { [vs |-> <<>>, roots |-> <<>>],
      [vs |-> <<vD, vC, vE, vB, vA>>, roots |-> <<kA>>],
      [vs |-> <<vD, vQ, vR, vP>>, roots |-> <<kP>>],
      [vs |-> <<vD, vQ, vR, vP, vT>>, roots |-> <<kT>>],
      [vs |-> <<vD, vQ, vR>>, roots |-> <<kQ, kR>>],
      [vs |-> <<vD, vQ, vR, vP>>, roots |-> <<kP, kQ>>],
      [vs |-> <<DefaultVertex, DefaultVertex>>,
       roots |-> <<self_edge(DefaultVertex), self_edge(DefaultVertex)>>] }

NoOp == [op |-> "none", tree |-> 0, source |-> END, value |-> DefaultVertex,
         ret |-> END, vertices |-> <<>>, edges |-> <<>>, trees |-> <<>>,
         guards |-> <<>>]

\* no Tree::update call made yet: its locals, and the values root_ took
NoCall == [active |-> FALSE, to_visit |-> <<>>, pins |-> <<>>, updated |-> <<>>,
           ub |-> FALSE, roots |-> <<>>, built |-> {}, lost |-> {}, sets |-> <<>>,
           steps |-> 0]

\* the locals of a Tree::update call that a Tree has not made yet
IdleCall == [phase |-> "idle", source |-> END, value |-> DefaultVertex,
             to_visit |-> <<>>, pins |-> <<>>, updated |-> <<>>, ub |-> FALSE,
             steps |-> 0]

\* no Tree is inside update: the store and roots before the first call, the
\* call of every Tree, and whether a call ran while another was running
NoRace == [pre |-> [vertices |-> <<>>, edges |-> <<>>, trees |-> <<>>],
           calls |-> [i \in 1..MaxTrees |-> IdleCall], overlap |-> FALSE]

Init ==
    \E b \in Builds :
        /\ vertices = insert_all(EmptyStore, b.vs).vertices
        /\ edges = insert_all(EmptyStore, b.vs).edges
        /\ trees = b.roots
        /\ crashed = FALSE
        /\ last = NoOp
        /\ nops = 0
        /\ call = NoCall
        /\ guards = <<>>
        /\ race = NoRace
        /\ walk = NoWalk

(* ------------------------------ actions ------------------------------- *)
Cur == Store(vertices, edges, crashed)

Keys == DOMAIN vertices

RECURSIVE SeqsUpTo(_, _)
SeqsUpTo(K, n) ==
    IF n = 0 THEN {<<>>}
    ELSE LET shorter == SeqsUpTo(K, n - 1)
         IN  shorter \cup {Append(s, k) : s \in shorter, k \in K}

\* the vertices a client may hand to the store: a payload and up to MaxDeg
\* keys of stored vertices ("every child must exist")
NewValues == {MkVertex(p, c) : p \in Payloads, c \in SeqsUpTo(Keys, MaxDeg)}

\* the values a client passes to update(source, value): source's vertex with
\* another payload, with one child key more or with one child less, or as is
UpdateValues(source) ==
    LET v == vertices[source]
        cs == {v.children}
                \cup {Append(v.children, k) : k \in Keys}
                \cup {RemoveAt(v.children, i) : i \in DOMAIN v.children}
    IN  {MkVertex(p, c) : p \in Payloads \cup {v.payload},
                          c \in {x \in cs : Len(x) <= MaxDeg}}

Ready == ~crashed /\ nops < MaxOps

Record(op, t, source, value, ret) ==
    last' = [op |-> op, tree |-> t, source |-> source, value |-> value,
             ret |-> ret, vertices |-> vertices, edges |-> edges, trees |-> trees,
             guards |-> guards]

Commit(S) ==
    /\ vertices' = S.vertices
    /\ edges' = S.edges
    /\ crashed' = S.crashed
    /\ nops' = nops + 1
    /\ UNCHANGED <<call, guards, race, walk>>

\* Tree::Tree(vertices): a Tree default-constructed on the shared store
NewTree ==
    /\ Ready
    /\ Len(trees) < MaxTrees
    /\ Commit(insert(Cur, DefaultVertex))
    /\ trees' = Append(trees, self_edge(DefaultVertex))
    /\ Record("tree", Len(trees) + 1, END, DefaultVertex, self_edge(DefaultVertex))

\* Tree::Tree(vertices, root)
TreeAt(root) ==
    /\ Ready
    /\ Len(trees) < MaxTrees
    /\ root \in Keys
    /\ Commit(Cur)
    /\ trees' = Append(trees, root)
    /\ Record("treeat", Len(trees) + 1, root, vertices[root], root)

\* vertices()->insert(value)
Insert(v) ==
    /\ Ready
    /\ Cardinality(Keys) < MaxVertices
    /\ Commit(insert(Cur, v))
    /\ UNCHANGED trees
    /\ Record("insert", 0, END, v, self_edge(v))

\* vertices()->erase(pos)
Erase(pos) ==
    /\ Ready
    /\ pos \in Keys
    /\ Commit(erase(Cur, pos))
    /\ UNCHANGED trees
    /\ Record("erase", 0, pos, vertices[pos], erase_result(Cur, pos))

\* a call of Tree::update on Tree t, whatever operation made it
DoUpdate(op, t, source, value, S) ==
    \E L \in update(S, trees[t], source, value) :
        /\ Commit(L.S)
        /\ trees' = [trees EXCEPT ![t] = L.root]
        /\ Record(op, t, source, value, self_edge(value))

\* Tree::update(source, value)
Update(t, source, value) ==
    /\ Ready
    /\ t \in DOMAIN trees
    /\ source \in Keys
    /\ DoUpdate("update", t, source, value, Cur)

\* Tree::insert(parent, child) with child a stored vertex
InsertChild(t, parent, child) ==
    /\ Ready
    /\ t \in DOMAIN trees
    /\ parent \in Keys /\ child \in Keys
    /\ DoUpdate("insertChild", t, parent, InsertValue(Cur, parent, child), Cur)

\* Tree::insert(parent, edge) with the key of a stored vertex
InsertEdge(t, parent, key) ==
    /\ Ready
    /\ t \in DOMAIN trees
    /\ parent \in Keys /\ key \in Keys
    /\ DoUpdate("insertEdge", t, parent, InsertValue(Cur, parent, key), Cur)

\* Tree::insert(parent, const vertex_type& child)
InsertChildVertex(t, parent, child) ==
    /\ Ready
    /\ t \in DOMAIN trees
    /\ parent \in Keys
    /\ Cardinality(Keys) < MaxVertices
    /\ LET S1 == insert(Cur, child)
       IN  DoUpdate("insertChildVertex", t, parent,
                    InsertValue(S1, parent, self_edge(child)), S1)

\* Tree::erase(parent, child)
EraseChild(t, parent, child) ==
    /\ Ready
    /\ t \in DOMAIN trees
    /\ parent \in Keys /\ child \in Keys
    /\ DoUpdate("eraseChild", t, parent, EraseValue(Cur, parent, child), Cur)

Next ==
    \/ NewTree
    \/ \E root \in Keys : TreeAt(root)
    \/ \E v \in NewValues : Insert(v)
    \/ \E pos \in Keys : Erase(pos)
    \/ \E t \in DOMAIN trees, source \in Keys :
          \E value \in UpdateValues(source) : Update(t, source, value)
    \/ \E t \in DOMAIN trees, parent \in Keys, child \in Keys :
          InsertChild(t, parent, child)
    \/ \E t \in DOMAIN trees, parent \in Keys, key \in Keys :
          InsertEdge(t, parent, key)
    \/ \E t \in DOMAIN trees, parent \in Keys :
          \E p \in Payloads : InsertChildVertex(t, parent, Leaf(p))
    \/ \E t \in DOMAIN trees, parent \in Keys, child \in Keys :
          EraseChild(t, parent, child)

Spec == Init /\ [][Next]_vars

(* ------------------ the store's operations and Pins ------------------- *)
StoreReady == ~crashed /\ nops < MaxStoreOps

\* the store after a call that may have changed the Pin objects
StoreCommit(S, g) ==
    /\ vertices' = S.vertices
    /\ edges' = S.edges
    /\ crashed' = S.crashed
    /\ guards' = g
    /\ nops' = nops + 1
    /\ UNCHANGED <<trees, call, race, walk>>

\* vertices()->insert(value)
StoreInsert(v) ==
    /\ StoreReady
    /\ Cardinality(Keys) < MaxVertices
    /\ StoreCommit(insert(Cur, v), guards)
    /\ Record("insert", 0, END, v, self_edge(v))

\* vertices()->erase(pos)
StoreErase(pos) ==
    /\ StoreReady
    /\ pos \in Keys
    /\ StoreCommit(erase(Cur, pos), guards)
    /\ Record("erase", 0, pos, vertices[pos], erase_result(Cur, pos))

\* vertices()->clear()
Clear ==
    /\ StoreReady
    /\ StoreCommit(clear(Cur), guards)
    /\ Record("clear", 0, END, DefaultVertex, END)

\* a Pin object: the key of its edge (key, key), and whether vertices_ is set
Guard(key, attached) == [key |-> key, attached |-> attached]

\* Pin::Pin(vertices, key) on a stored key
PinConstruct(key) ==
    /\ StoreReady
    /\ key \in Keys
    /\ Len(guards) < MaxGuards
    /\ StoreCommit(insert_edge(Cur, <<key, key>>), Append(guards, Guard(key, TRUE)))
    /\ Record("pin", Len(guards) + 1, key, vertices[key], key)

\* Pin::~Pin of the i-th Pin
PinRelease(i) ==
    /\ StoreReady
    /\ i \in DOMAIN guards
    /\ StoreCommit(IF guards[i].attached
                   THEN erase_edge(Cur, <<guards[i].key, guards[i].key>>)
                   ELSE Cur,
                   RemoveAt(guards, i))
    /\ Record("unpin", i, guards[i].key, Deref(Cur, guards[i].key), guards[i].key)

\* Pin::detach of the i-th Pin
PinDetach(i) ==
    /\ StoreReady
    /\ i \in DOMAIN guards
    /\ StoreCommit(Cur, [guards EXCEPT ![i].attached = FALSE])
    /\ Record("detach", i, guards[i].key, Deref(Cur, guards[i].key), guards[i].key)

\* Pin::Pin(Pin&& other) with other the i-th Pin
PinMove(i) ==
    /\ StoreReady
    /\ i \in DOMAIN guards
    /\ Len(guards) < MaxGuards
    /\ StoreCommit(Cur, Append([guards EXCEPT ![i].attached = FALSE],
                               Guard(guards[i].key, guards[i].attached)))
    /\ Record("move", i, guards[i].key, Deref(Cur, guards[i].key), guards[i].key)

StoreNext ==
    \/ \E v \in NewValues : StoreInsert(v)
    \/ \E pos \in Keys : StoreErase(pos)
    \/ Clear
    \/ \E key \in Keys : PinConstruct(key)
    \/ \E i \in DOMAIN guards : PinRelease(i)
    \/ \E i \in DOMAIN guards : PinDetach(i)
    \/ \E i \in DOMAIN guards : PinMove(i)

StoreSpec == Init /\ [][StoreNext]_vars

(* ------------------- Tree::update, one step at a time ------------------ *)
\* the locals of the running call, with the store and root_ as they are now
CallLoop ==
    [S |-> Cur, root |-> trees[last.tree], to_visit |-> call.to_visit,
     pins |-> call.pins, updated |-> call.updated, ub |-> call.ub,
     sets |-> call.sets]

\* the keys the running call has put into the store so far, with store S
\* the latest: those stored now or earlier in the call and not before it
Built(S) ==
    IF call.active THEN call.built \cup (DOMAIN S.vertices \ DOMAIN last.vertices)
    ELSE DOMAIN S.vertices \ Keys

\* the store, root_ and the locals after a step of the call on Tree t; built
\* and lost record the vertices the call built and those of them it erased,
\* steps the iterations of the while loop it has made
StepTo(t, L, active, roots) ==
    /\ vertices' = L.S.vertices
    /\ edges' = L.S.edges
    /\ crashed' = L.S.crashed
    /\ trees' = [trees EXCEPT ![t] = L.root]
    /\ call' = [active |-> active, to_visit |-> L.to_visit, pins |-> L.pins,
                updated |-> L.updated, ub |-> L.ub,
                roots |-> IF L.root = roots[Len(roots)] THEN roots
                          ELSE Append(roots, L.root),
                built |-> Built(L.S),
                lost |-> (IF call.active THEN call.lost ELSE {})
                           \cup ((Built(Cur) \cap Keys) \ DOMAIN L.S.vertices),
                sets |-> L.sets,
                steps |-> IF ~call.active THEN 0
                          ELSE IF active THEN call.steps + 1 ELSE call.steps]
    /\ UNCHANGED <<guards, race, walk>>

\* Tree::update(source, value) up to its while loop
UpdateBegin(t, source, value) ==
    /\ Ready
    /\ ~call.active
    /\ t \in DOMAIN trees
    /\ source \in Keys
    /\ StepTo(t, update_begin(Cur, trees[t], source, value), TRUE, <<trees[t]>>)
    /\ nops' = nops + 1
    /\ Record("update", t, source, value, self_edge(value))

\* one iteration of the while loop
UpdateStep(uaf) ==
    /\ call.active
    /\ ~crashed
    /\ call.to_visit /= <<>>
    /\ call.steps < MaxIterations
    /\ StepTo(last.tree, update_step(CallLoop, last.value, uaf), TRUE, call.roots)
    /\ UNCHANGED <<last, nops>>

\* the loop is over: pins is destroyed and the call returns
UpdateEnd(order) ==
    /\ call.active
    /\ ~crashed
    /\ call.to_visit = <<>>
    /\ StepTo(last.tree, update_end(CallLoop, order), FALSE, call.roots)
    /\ UNCHANGED <<last, nops>>

StepNext ==
    \/ \E t \in DOMAIN trees, source \in Keys :
          \E value \in UpdateValues(source) : UpdateBegin(t, source, value)
    \/ \E uaf \in UafOutcomes : UpdateStep(uaf)
    \/ \E order \in PinOrders : UpdateEnd(order)

StepSpec == Init /\ [][StepNext]_vars

(* ------------- Tree::update from two Trees, steps interleaved ---------- *)
\* the locals of Tree i's call, with the store and root_ as they are now
RaceLoop(i) ==
    [S |-> Cur, root |-> trees[i], to_visit |-> race.calls[i].to_visit,
     pins |-> race.calls[i].pins, updated |-> race.calls[i].updated,
     ub |-> race.calls[i].ub, sets |-> <<>>]

\* every call is taken to run alone
NeverOverlaps(i) == FALSE

\* another Tree is inside update
Overlaps(i) == \E j \in DOMAIN trees \ {i} : race.calls[j].phase = "run"

\* the store, root_ and the locals after a step of Tree i's call
RaceTo(i, L, phase, source, value, steps) ==
    /\ vertices' = L.S.vertices
    /\ edges' = L.S.edges
    /\ crashed' = L.S.crashed
    /\ trees' = [trees EXCEPT ![i] = L.root]
    /\ race' = [pre |-> IF \A j \in DOMAIN trees : race.calls[j].phase = "idle"
                        THEN [vertices |-> vertices, edges |-> edges,
                              trees |-> trees]
                        ELSE race.pre,
                calls |-> [race.calls EXCEPT ![i] =
                             [phase |-> phase, source |-> source, value |-> value,
                              to_visit |-> L.to_visit, pins |-> L.pins,
                              updated |-> L.updated, ub |-> L.ub,
                              steps |-> steps]],
                overlap |-> race.overlap \/ Overlaps(i)]
    /\ UNCHANGED <<last, nops, call, guards, walk>>

\* Tree i enters update(source, value) and runs it up to the while loop
RaceBegin(i, source, value) ==
    /\ ~crashed
    /\ i \in DOMAIN trees
    /\ race.calls[i].phase = "idle"
    /\ source \in Keys
    /\ RaceTo(i, update_begin(Cur, trees[i], source, value), "run", source, value, 0)

\* one iteration of the while loop of Tree i's call
RaceStep(i, uaf) ==
    /\ ~crashed
    /\ i \in DOMAIN trees
    /\ race.calls[i].phase = "run"
    /\ race.calls[i].to_visit /= <<>>
    /\ race.calls[i].steps < MaxSteps
    /\ RaceTo(i, update_step(RaceLoop(i), race.calls[i].value, uaf), "run",
              race.calls[i].source, race.calls[i].value, race.calls[i].steps + 1)

\* Tree i's loop is over: pins is destroyed and the call returns
RaceEnd(i, order) ==
    /\ ~crashed
    /\ i \in DOMAIN trees
    /\ race.calls[i].phase = "run"
    /\ race.calls[i].to_visit = <<>>
    /\ RaceTo(i, update_end(RaceLoop(i), order), "done",
              race.calls[i].source, race.calls[i].value, race.calls[i].steps)

\* the values the two clients pass to update(source, value): source's child
\* list, or that list with the key of a stored vertex appended, under a
\* payload of the client's choice
RaceValues(source) ==
    LET v == vertices[source]
        cs == {v.children} \cup {Append(v.children, k) : k \in Keys}
    IN  {MkVertex(p, c) : p \in Payloads, c \in {x \in cs : Len(x) <= MaxDeg}}
           \ {v}

RaceNext ==
    \/ \E i \in DOMAIN trees, source \in Keys :
          \E value \in RaceValues(source) : RaceBegin(i, source, value)
    \/ \E i \in DOMAIN trees, uaf \in UafOutcomes : RaceStep(i, uaf)
    \/ \E i \in DOMAIN trees, order \in PinOrders : RaceEnd(i, order)

\* two clients hold a Tree each on the shared store
RaceInit == Init /\ Len(trees) = MaxTrees

RaceSpec == RaceInit /\ [][RaceNext]_vars

(* ------------------------- walking a container ------------------------ *)
TravInit ==
    /\ vertices = <<>>
    /\ edges = <<>>
    /\ trees = <<>>
    /\ crashed = FALSE
    /\ last = NoOp
    /\ nops = 0
    /\ call = NoCall
    /\ guards = <<>>
    /\ race = NoRace
    /\ \E c \in Containers, kind \in Kinds :
          \E root \in DOMAIN c \cup {PastEnd}, pred \in Predicates(c) :
              walk = Construct(kind, c, root, pred)

\* ++traversal in the range-for loop, while traversal != end()
Increment(kind) ==
    /\ walk.kind = kind
    /\ walk.position /= PastEnd
    /\ walk.steps < MaxVisits
    /\ walk' = increment(walk)
    /\ UNCHANGED <<vertices, edges, trees, crashed, last, nops, call, guards, race>>

BreadthFirstIncrement == Increment("bfs")

InOrderIncrement == Increment("in")

PostOrderIncrement == Increment("post")

TravNext ==
    \/ BreadthFirstIncrement
    \/ InOrderIncrement
    \/ PostOrderIncrement

TravSpec == TravInit /\ [][TravNext]_vars

(* ----------------------- notions of the claims ------------------------ *)
\* the keys of the stored vertices reachable from the given roots
RECURSIVE ReachFrom(_, _, _)
ReachFrom(vs, frontier, seen) ==
    LET here == (frontier \cap DOMAIN vs) \ seen
    IN  IF here = {} THEN seen
        ELSE ReachFrom(vs, UNION {Range(vs[k].children) : k \in here}, seen \cup here)

Reach(vs, roots) == ReachFrom(vs, roots, {})

\* referenceCount(K) in a store given by its edge list
RefCount(es, K) == Cardinality({i \in DOMAIN es : es[i][1] = K})

\* the stored vertices whose child list contains K
ParentsOf(vs, K) == {p \in DOMAIN vs : K \in Range(vs[p].children)}

EdgeKeys(es) == {es[i][1] : i \in DOMAIN es}

CountsAgree(vs, es) ==
    \A K \in DOMAIN vs \cup EdgeKeys(es) :
        RefCount(es, K) = Cardinality(ParentsOf(vs, K))

UpdateOps == {"update", "insertChild", "insertEdge", "insertChildVertex", "eraseChild"}

\* the last operation was a Tree::update call that returned
Updated == last.op \in UpdateOps /\ ~crashed

PreRoot == last.trees[last.tree]
PostRoot == trees[last.tree]
NewKey == self_edge(last.value)

GarbageFree(vs, roots) == DOMAIN vs \subseteq Reach(vs, roots)

NoDangling(vs, roots) ==
    \A k \in Reach(vs, roots) : Range(vs[k].children) \subseteq DOMAIN vs

\* no stored child list holds a key twice
NoDuplicateChildren(vs) ==
    \A k \in DOMAIN vs : \A i, j \in DOMAIN vs[k].children :
        vs[k].children[i] = vs[k].children[j] => i = j

\* C1: between operations, referenceCount(K) is the number of distinct stored
\* vertices whose child list contains K, for every key K (stated for stores in
\* which no child list names a key twice, where the two ways of counting
\* could differ for that reason alone)
C1_RefcountIntegrity ==
    (~crashed /\ NoDuplicateChildren(vertices)) => CountsAgree(vertices, edges)

\* the store and the roots before the last operation were consistent: counts
\* agree with child lists, every root is stored, no reachable child is missing
PreSound ==
    /\ CountsAgree(last.vertices, last.edges)
    /\ NoDuplicateChildren(last.vertices)
    /\ Range(last.trees) \subseteq DOMAIN last.vertices
    /\ NoDangling(last.vertices, Range(last.trees))

\* the last update gave a stored vertex a new payload and kept its child
\* list, in a consistent store that did not hold the new value yet
PayloadEdit ==
    /\ Updated
    /\ PreSound
    /\ last.source \in DOMAIN last.vertices
    /\ NewKey \notin DOMAIN last.vertices
    /\ last.value.children = last.vertices[last.source].children

\* C2: after an update that replaces the root of a Tree, every stored vertex is
\* reachable from some live root (given that before the call every stored
\* vertex was reachable from a live root or from the new value)
C2_GarbageFreedom ==
    (/\ PayloadEdit
     /\ PostRoot /= PreRoot
     /\ DOMAIN last.vertices \subseteq
            Reach(last.vertices, Range(last.trees) \cup Range(last.value.children)))
    => GarbageFree(vertices, Range(trees))

\* C3: after any erase or update, every child key listed by a vertex reachable
\* from a live root resolves to a stored vertex
C3_NoDanglingReachability ==
    (~crashed /\ last.op \in UpdateOps \cup {"erase"})
    => NoDangling(vertices, Range(trees))

\* an erase or update that removed vertices and left a root reaching a vertex
\* with children
C3_Witness ==
    /\ ~crashed
    /\ last.op \in UpdateOps \cup {"erase"}
    /\ DOMAIN last.vertices \ DOMAIN vertices /= {}
    /\ \E k \in Reach(vertices, Range(trees)) : vertices[k].children /= <<>>

\* an update of a vertex below the root with a value under another key
PropagatingUpdate ==
    /\ Updated
    /\ last.source /= PreRoot
    /\ last.source \in Reach(last.vertices, {PreRoot})
    /\ NewKey /= last.source

\* C4: after update(source, newValue) with source below the root and newValue
\* under another key, the root reaches the new vertex and no vertex reachable
\* from the root lists source's old key
C4_CompletePropagation ==
    (PropagatingUpdate /\ PayloadEdit)
    => /\ NewKey \in Reach(vertices, {PostRoot})
       /\ \A k \in Reach(vertices, {PostRoot}) :
              last.source \notin Range(vertices[k].children)

\* the replacement the rewrite builds for parent x of the edited vertex
ReplacementOf(x) ==
    self_edge(SetEdges(last.vertices[x],
                       insert_unique(NewKey, exclude_copy(last.source,
                                                          last.vertices[x].children))))

\* the vertices the last operation added that carry the payload of g
RebuiltFor(g) == {k \in DOMAIN vertices \ DOMAIN last.vertices : k[1] = g[1]}

\* C5: an ancestor g reached from the edited vertex through two children q, r
\* is replaced by exactly one new vertex, which lists the replacements of q
\* and r and neither q nor r
C5_ConvergenceCorrectness ==
    (PropagatingUpdate /\ PayloadEdit)
    => \A q, r \in ParentsOf(last.vertices, last.source) :
         \A g \in ParentsOf(last.vertices, q) \cap ParentsOf(last.vertices, r)
                  \cap Reach(last.vertices, {PreRoot}) :
           q /= r =>
             /\ Cardinality(RebuiltFor(g)) = 1
             /\ \A k \in RebuiltFor(g) :
                  /\ {ReplacementOf(q), ReplacementOf(r)} \subseteq Range(k[2])
                  /\ q \notin Range(k[2])
                  /\ r \notin Range(k[2])

\* C6: update(source, v) with v the vertex stored at source leaves the stored
\* vertices, the reference counts and the roots as they were
C6_UpdateIdempotence ==
    (/\ Updated
     /\ last.op = "update"
     /\ PreSound
     /\ PreRoot \in Reach(last.vertices, {PreRoot})
     /\ last.value = last.vertices[last.source])
    => /\ vertices = last.vertices
       /\ \A K \in DOMAIN vertices : RefCount(edges, K) = RefCount(last.edges, K)
       /\ trees = last.trees

\* C7: update(root, newValue) makes the inserted vertex the root and returns
\* it, adds no other vertex, and releases the old root: the old root is gone
\* unless an edge still names it
C7_RootUpdate ==
    (Updated /\ last.op = "update" /\ last.source = PreRoot /\ PreSound)
    => /\ PostRoot = NewKey
       /\ last.ret = NewKey
       /\ NewKey \in DOMAIN vertices
       /\ vertices[NewKey] = last.value
       /\ DOMAIN vertices \subseteq DOMAIN last.vertices \cup {NewKey}
       /\ (PreRoot /= NewKey /\ PreRoot \notin Range(last.value.children)
              /\ RefCount(last.edges, PreRoot) = 0)
           => PreRoot \notin DOMAIN vertices

\* the store and the Tree of the scenario: root A -> [B, C], B -> [D], leaf E
ScenarioBefore ==
    /\ last.vertices = insert_all(EmptyStore, <<vD, vC, vE, vB, vA>>).vertices
    /\ last.edges = insert_all(EmptyStore, <<vD, vC, vE, vB, vA>>).edges
    /\ last.trees = <<kA>>

C9_ScenarioEraseChild ==
    (Updated /\ ScenarioBefore /\ last.op = "eraseChild"
        /\ last.source = kB /\ last.value = SetEdges(vB, <<>>))
    => LET kB1 == self_edge(SetEdges(vB, <<>>))
           kA1 == self_edge(SetEdges(vA, <<kB1, kC>>))
       IN  /\ kB1 \in DOMAIN vertices
           /\ PostRoot = kA1
           /\ kA1 \in DOMAIN vertices
           /\ kD \notin DOMAIN vertices

\* C10: an update through one Tree, with a value not stored before, leaves
\* every other Tree's root stored and the sub-graph that root reaches as it was
C10_MultiTreeIsolation ==
    (Updated /\ PreSound /\ NewKey \notin DOMAIN last.vertices)
    => \A u \in DOMAIN last.trees \ {last.tree} :
          /\ trees[u] = last.trees[u]
          /\ \A k \in Reach(last.vertices, {last.trees[u]}) :
                k \in DOMAIN vertices /\ vertices[k] = last.vertices[k]

\* C11: at every step of an update and after it returns, the Tree's root is a
\* stored vertex, and root_ changes at most once during the call (stated for
\* a payload edit in a consistent store)
C11_NoBrokenIntermediateState ==
    PayloadEdit
    => /\ trees[last.tree] \in DOMAIN vertices
       /\ Len(call.roots) <= 2

\* C12: update(source, newValue) returns the handle of the vertex stored under
\* newValue's key, whatever was rebuilt or rolled back (stated for a payload
\* edit in a consistent store)
C12_UpdateReturnsTarget ==
    PayloadEdit
    => /\ last.ret = NewKey
       /\ find(Cur, last.ret) /= END
       /\ Deref(Cur, last.ret) = last.value

\* counts agree with child lists and no child list names a key twice
StoreSound(vs, es) == CountsAgree(vs, es) /\ NoDuplicateChildren(vs)

\* the vertices that lose their last incoming edge when pos goes: pos, and
\* every child of a member all of whose incoming edges come from members
RECURSIVE UnreferencedClosure(_, _, _)
UnreferencedClosure(vs, es, R) ==
    LET more == {k \in DOMAIN vs \ R :
                    /\ \E r \in R : k \in Range(vs[r].children)
                    /\ \A i \in DOMAIN es : es[i][1] = k => es[i][2] \in R}
    IN  IF more = {} THEN R ELSE UnreferencedClosure(vs, es, R \cup more)

\* the last operation was erase(handle) on a vertex with reference count zero
\* in a store whose counts agreed with its child lists
ErasedOrphan ==
    /\ last.op = "erase"
    /\ ~crashed
    /\ StoreSound(last.vertices, last.edges)
    /\ RefCount(last.edges, last.source) = 0

Occurrences(children, K) == Cardinality({i \in DOMAIN children : children[i] = K})

\* the last operation was insert(vertex) with a key not stored before
InsertedNew ==
    /\ last.op = "insert"
    /\ ~crashed
    /\ NewKey \notin DOMAIN last.vertices

\* C15: insert(vertex) under a key not yet stored stores the vertex under its
\* key, adds one edge (child, key) per entry of its child list so that each
\* child's count grows by its number of entries, leaves every other vertex
\* and edge as it was, and returns the handle of the stored vertex
C15_InsertNewVertex ==
    InsertedNew
    => /\ DOMAIN vertices = DOMAIN last.vertices \cup {NewKey}
       /\ vertices[NewKey] = last.value
       /\ \A k \in DOMAIN last.vertices : vertices[k] = last.vertices[k]
       /\ SubSeq(edges, 1, Len(last.edges)) = last.edges
       /\ \A i \in (Len(last.edges) + 1)..Len(edges) :
              edges[i][2] = NewKey /\ edges[i][1] \in Range(last.value.children)
       /\ \A K \in DOMAIN vertices :
              RefCount(edges, K) = RefCount(last.edges, K)
                                     + Occurrences(last.value.children, K)
       /\ last.ret = NewKey
       /\ find(Cur, last.ret) = NewKey

\* an insert of a new vertex with two children
C15_Witness ==
    /\ InsertedNew
    /\ Len(last.value.children) = 2
    /\ NewKey \in DOMAIN vertices

C17_StoredVerticesImmutable ==
    ~crashed
    => \A k \in DOMAIN vertices \cap DOMAIN last.vertices :
          vertices[k] = last.vertices[k]

\* an update that rebuilt a parent of the edited vertex under a new key while
\* the parent itself stays stored
C17_Witness ==
    /\ Updated
    /\ \E k \in DOMAIN vertices \cap ParentsOf(last.vertices, last.source) :
          \E n \in DOMAIN vertices \ DOMAIN last.vertices :
             n[1] = k[1] /\ NewKey \in Range(vertices[n].children)

\* C18: for every reference edge (child, parent) in the store, a vertex with
\* key parent is stored
C18_EdgeParentStored ==
    ~crashed => \A i \in DOMAIN edges : edges[i][2] \in DOMAIN vertices

\* the key of the Pin the last operation was about
PinKey == last.source

\* the last operation released an attached Pin
ReleasedAttached ==
    /\ last.op = "unpin"
    /\ ~crashed
    /\ last.guards[last.tree].attached

\* C19: constructing a Pin on a stored key raises the key's reference count
\* by one; releasing an attached Pin lowers it by one, and erases the vertex,
\* with its unreferenced descendants, when the Pin was its only referrer;
\* releasing a detached or moved-from Pin and detaching or moving a Pin leave
\* the store as it was
C19_PinAccounting ==
    /\ (last.op = "pin" /\ ~crashed)
          => RefCount(edges, PinKey) = RefCount(last.edges, PinKey) + 1
    /\ ReleasedAttached
          => /\ RefCount(edges, PinKey) = RefCount(last.edges, PinKey) - 1
             /\ (RefCount(last.edges, PinKey) = 1 /\ PinKey \in DOMAIN last.vertices)
                  => DOMAIN vertices = DOMAIN last.vertices \
                         UnreferencedClosure(last.vertices,
                             SelectSeq(last.edges, LAMBDA e : e /= <<PinKey, PinKey>>),
                             {PinKey})
    /\ (~crashed /\ \/ last.op \in {"detach", "move"}
                    \/ (last.op = "unpin" /\ ~last.guards[last.tree].attached))
          => vertices = last.vertices /\ edges = last.edges

\* C20: clear() leaves no vertex and no edge, whatever the counts were, so
\* that count(K) = 0 and find(K) is end for every key K
C20_ClearEmptiesStore ==
    (last.op = "clear" /\ ~crashed)
    => /\ DOMAIN vertices = {}
       /\ Len(edges) = 0
       /\ \A K \in DOMAIN last.vertices \cup EdgeKeys(last.edges) :
              count(Cur, K) = 0 /\ find(Cur, K) = END

\* a clear of a store that held a vertex with two references
C20_Witness ==
    /\ last.op = "clear"
    /\ ~crashed
    /\ \E K \in DOMAIN last.vertices : RefCount(last.edges, K) >= 2

\* no edge (k, k), the edge a Pin adds, is in the edge list
NoSelfLoop(es) == \A i \in DOMAIN es : es[i][1] /= es[i][2]

\* C30: after an update no self-loop edge of a Pin remains, and every
\* reference count is the number of stored parents (stated for a payload edit
\* in a consistent store)
C30_PinsReleased ==
    PayloadEdit
    => /\ NoSelfLoop(edges)
       /\ CountsAgree(vertices, edges)

\* the root of the Tree the running or last call is on
CallRoot == trees[last.tree]

\* an edge to k from a stored vertex other than k
HasRealParent(k) ==
    \E i \in DOMAIN edges :
        edges[i][1] = k /\ edges[i][2] /= k /\ edges[i][2] \in DOMAIN vertices

\* C28: during an update, no vertex the call built that is the root or is
\* reachable from it has been erased at an earlier step, every pinned vertex
\* is stored, and when the pins are about to be released every pinned vertex
\* reachable from the root has a real parent edge (stated for a payload edit
\* in a consistent store)
C28_PinProtection ==
    PayloadEdit
    => /\ call.lost \cap ({CallRoot} \cup Reach(vertices, {CallRoot})) = {}
       /\ call.active => Range(call.pins) \subseteq DOMAIN vertices
       /\ (call.active /\ call.to_visit = <<>>)
            => \A k \in Range(call.pins) \cap Reach(vertices, {CallRoot}) :
                  HasRealParent(k)

\* the stored vertices from which k is reached over child lists
Ancestors(vs, k) == {a \in DOMAIN vs \ {k} : k \in Reach(vs, {a})}

\* the ancestors of the edited vertex carry pairwise different payloads, so
\* that a rebuilt copy tells which ancestor it replaces
AncestorsTold ==
    \A a, b \in Ancestors(last.vertices, last.source) : a[1] = b[1] => a = b

\* the ancestors of the edited vertex that the Tree's root does not reach
DeadEnds == Ancestors(last.vertices, last.source) \ Reach(last.vertices, {PreRoot})

\* C29: after update returns, the store holds no replacement built for an
\* ancestor that does not lead to this Tree's root, and where such a dead-end
\* ancestor exists and the edited vertex was below the root, the root reaches
\* the new vertex (stated for a payload edit in a consistent store)
C29_DeadEndRollback ==
    (PayloadEdit /\ AncestorsTold)
    => /\ \A x \in DeadEnds : RebuiltFor(x) \ {NewKey} = {}
       /\ (DeadEnds /= {} /\ last.source \in Reach(last.vertices, {PreRoot}))
            => NewKey \in Reach(vertices, {PostRoot})

\* the store invariants: the counts agree with the child lists, every root
\* and every child reachable from a root is stored, and every stored vertex
\* is reachable from a root
RaceSound(vs, es, roots) ==
    /\ CountsAgree(vs, es)
    /\ Range(roots) \subseteq DOMAIN vs
    /\ NoDangling(vs, Range(roots))
    /\ GarbageFree(vs, Range(roots))

BothBegan == \A i \in DOMAIN trees : race.calls[i].phase /= "idle"

BothDone == \A i \in DOMAIN trees : race.calls[i].phase = "done"

\* the outcomes of Tree i's update followed by Tree j's, both started from
\* the store the first call found; ok tells that the second call's source
\* was still stored when the first had returned
SerialRuns(i, j) ==
    LET pre == race.pre
        ci == race.calls[i]
        cj == race.calls[j]
        firsts == update(Store(pre.vertices, pre.edges, FALSE), pre.trees[i],
                         ci.source, ci.value)
    IN  UNION { { [S |-> L2.S,
                   ok |-> ~L1.S.crashed /\ cj.source \in DOMAIN L1.S.vertices,
                   trees |-> [[pre.trees EXCEPT ![i] = L1.root]
                                 EXCEPT ![j] = L2.root]] :
                  L2 \in update(L1.S, pre.trees[j], cj.source, cj.value) } :
                L1 \in firsts }

\* the two updates, run one after the other in either order, keep the store
\* invariants
SerialSound ==
    /\ RaceSound(race.pre.vertices, race.pre.edges, race.pre.trees)
    /\ \A i \in DOMAIN trees : race.calls[i].source \in DOMAIN race.pre.vertices
    /\ \A i, j \in DOMAIN trees : i /= j =>
         \A r \in SerialRuns(i, j) :
            r.ok /\ ~r.S.crashed /\ RaceSound(r.S.vertices, r.S.edges, r.trees)

Over == walk.position = PastEnd

\* the keys of a list of links that name a stored vertex, in list order
Stored(c, ks) == SelectSeq(ks, LAMBDA k : k \in DOMAIN c)

RECURSIVE Flatten(_)
Flatten(ss) == IF ss = <<>> THEN <<>> ELSE Head(ss) \o Flatten(Tail(ss))

\* the stored children of the vertices of a level, left to right
ChildrenOf(c, level) == Flatten([i \in DOMAIN level |-> Stored(c, c[level[i]])])

\* the vertices of the first n + 1 levels below and including level, level
\* by level
RECURSIVE LevelOrder(_, _, _)
LevelOrder(c, level, n) ==
    IF level = <<>> \/ n < 0 THEN <<>>
    ELSE level \o LevelOrder(c, ChildrenOf(c, level), n - 1)

\* every level below the start vertex (no container is MaxVisits deep)
AllLevels ==
    IF walk.root = PastEnd THEN <<>>
    ELSE LevelOrder(walk.vs, <<walk.root>>, MaxVisits)

\* left subtree, vertex, right subtree
RECURSIVE InOrderOf(_, _)
InOrderOf(c, k) ==
    IF k \notin DOMAIN c THEN <<>>
    ELSE IF Len(c[k]) = 2
    THEN InOrderOf(c, c[k][1]) \o <<k>> \o InOrderOf(c, c[k][2])
    ELSE <<k>>

\* left subtree, right subtree, vertex
RECURSIVE PostOrderOf(_, _)
PostOrderOf(c, k) ==
    IF k \notin DOMAIN c THEN <<>>
    ELSE IF Len(c[k]) = 2
    THEN PostOrderOf(c, c[k][1]) \o PostOrderOf(c, c[k][2]) \o <<k>>
    ELSE <<k>>

IsPrefix(s, t) == Len(s) <= Len(t) /\ SubSeq(t, 1, Len(s)) = s

\* the traversal hands out the sequence order, and nothing after it
Visits(order) ==
    /\ IsPrefix(walk.out, order)
    /\ Over => walk.out = order
    /\ (walk.out = order /\ ~Over) => increment(walk).position = PastEnd

\* a container of vertices with no links or two
Binary(c) == \A k \in DOMAIN c : Len(c[k]) \in {0, 2}

Labels(s) == [i \in DOMAIN s |-> Letter[s[i]]]

Is(kind, c, root, pred) ==
    walk.kind = kind /\ walk.vs = c /\ walk.root = root /\ walk.pred = pred

\* C22: a breadth-first traversal under the accept-all predicate hands out
\* the start vertex first and then the stored vertices level by level, the
\* children of a vertex in the order of its links; started at end() it is at
\* its end and hands out nothing
C22_BreadthFirstOrder ==
    (walk.kind = "bfs" /\ walk.pred = AcceptAll)
    => /\ Visits(AllLevels)
       /\ walk.root = PastEnd => Over /\ walk.out = <<>>

\* the test BredthFirstTraversal: A -> [B, C, D] gives A, B, C, D
C22_Witness ==
    Is("bfs", fan, 1, AcceptAll) /\ Over /\ walk.out = <<1, 2, 3, 4>>

\* C23: under the accept-all predicate a traversal is never positioned on a
\* key that is not stored, hands out stored vertices only, and has handed
\* out every stored vertex reachable from the start when it is over, whether
\* the links name NullKey or other keys without a vertex
C23_MissingChildren ==
    (walk.pred = AcceptAll /\ (walk.kind = "bfs" \/ Binary(walk.vs)))
    => /\ walk.position \in DOMAIN walk.vs \cup {PastEnd}
       /\ Range(walk.out) \subseteq DOMAIN walk.vs
       /\ Over => Range(walk.out) = Range(AllLevels)

\* a breadth-first traversal has passed a link to a key that is not stored
\* and handed out the sibling after it
C23_Witness ==
    /\ Is("bfs", BinaryTree({1, 3}, "gone"), 1, AcceptAll)
    /\ walk.vs[1] = <<2, 3>>
    /\ Over
    /\ walk.out = <<1, 3>>

\* C24: an in-order traversal of a binary tree started at any vertex hands
\* out exactly the vertices of that vertex's subtree, each once, left
\* subtree, vertex, right subtree
C24_InOrder ==
    (walk.kind = "in" /\ walk.pred = AcceptAll /\ Binary(walk.vs)
        /\ walk.root /= PastEnd)
    => Visits(InOrderOf(walk.vs, walk.root))

\* C25: a post-order traversal of a binary tree hands out every vertex of
\* the start vertex's subtree once, after the vertices of its subtrees, and
\* is over after the start vertex
C25_PostOrder ==
    (walk.kind = "post" /\ walk.pred = AcceptAll /\ Binary(walk.vs)
        /\ walk.root /= PastEnd)
    => Visits(PostOrderOf(walk.vs, walk.root))

\* the test PostOrderTraversal: A C E D B H I G F
C25_Witness ==
    /\ Is("post", tree, KeyOf("F"), AcceptAll)
    /\ Over
    /\ Labels(walk.out) = <<"A", "C", "E", "D", "B", "H", "I", "G", "F">>

\* C26: a breadth-first traversal with MaxDepthPredicate(n) hands out the
\* vertices at distance n or less from the start, level by level
C26_MaxDepth ==
    (walk.kind = "bfs" /\ walk.pred.kind = "maxdepth" /\ walk.root /= PastEnd)
    => Visits(LevelOrder(walk.vs, <<walk.root>>, walk.pred.n))

\* the test MaxDepthBreadthFirstTraversal: n = 2 from F gives F B G A D I
C26_Witness ==
    /\ Is("bfs", tree, KeyOf("F"), MaxDepthPredicate(2))
    /\ Over
    /\ Labels(walk.out) = <<"F", "B", "G", "A", "D", "I">>

\* the edges a predicate on sources or targets accepts
Accepted(e) ==
    CASE walk.pred.kind = "targets" -> e[2] \in walk.pred.set
      [] walk.pred.kind = "sources" -> e[1] \in walk.pred.set
      [] OTHER -> TRUE

\* the stored vertices reached from seen over accepted edges
RECURSIVE AcceptedReach(_, _)
AcceptedReach(c, seen) ==
    LET more == {k \in DOMAIN c :
                    \E p \in seen : \E i \in DOMAIN c[p] :
                        c[p][i] = k /\ Accepted(<<p, k>>)} \ seen
    IN  IF more = {} THEN seen ELSE AcceptedReach(c, seen \cup more)

\* C27: a traversal hands out, besides its start vertex, only vertices that
\* a chain of edges accepted by its predicate leads to; the tests' in-order
\* traversal accepting the targets F, G, I gives F G I and the breadth-first
\* traversal accepting the edges out of F gives F B G
C27_PredicateFilter ==
    /\ (walk.pred.kind \in {"targets", "sources"} /\ walk.root /= PastEnd
          /\ (walk.kind = "bfs" \/ Binary(walk.vs)))
       => Range(walk.out) \subseteq AcceptedReach(walk.vs, {walk.root})
    /\ (Is("in", tree, KeyOf("F"), TargetIn({KeyOf("F"), KeyOf("G"), KeyOf("I")}))
          /\ Over)
       => Labels(walk.out) = <<"F", "G", "I">>
    /\ (Is("bfs", tree, KeyOf("F"), SourceIn({KeyOf("F")})) /\ Over)
       => Labels(walk.out) = <<"F", "B", "G">>

(* ------------------- claims on the steps of update -------------------- *)
\* how many edges (k, k) the edge list holds
SelfLoops(es, k) == Cardinality({i \in DOMAIN es : es[i] = <<k, k>>})

\* the Pin objects of the running call that are attached once the first n
\* elements of pins, taken in the given order, are destroyed, and the edge
\* list at that moment
PinsLeft(order, n) ==
    LET pins == IF order = "fwd" THEN call.pins ELSE Reverse(call.pins)
    IN  [left |-> SubSeq(pins, n + 1, Len(pins)),
         S |-> release_pins(Cur, SubSeq(pins, 1, n))]

\* every attached Pin has its edge (key, key) in the edge list
Backed(pins, es) == \A i \in DOMAIN pins : <<pins[i], pins[i]>> \in Range(es)

\* the vector pins holds a key twice with another key in between
PinnedAgain(pins) ==
    \E i, j, k \in DOMAIN pins : i < j /\ j < k /\ pins[i] = pins[k] /\ pins[j] /= pins[i]

\* C31: while an update runs the edge list holds at most one edge (k, k) per
\* key k, also when a key is pinned a second time after another key, and
\* every Pin that is attached has its edge (key, key) in the edge list, from
\* its construction until it is destroyed at the return of the call
C31_PinCoalescing ==
    (call.active /\ ~crashed)
    => /\ \A k \in DOMAIN vertices \cup Range(call.pins) : SelfLoops(edges, k) <= 1
       /\ Backed(call.pins, edges)
       /\ call.to_visit = <<>>
            => \A order \in PinOrders : \A n \in 0..Len(call.pins) :
                  ~PinsLeft(order, n).S.crashed
                  => Backed(PinsLeft(order, n).left, PinsLeft(order, n).S.edges)

\* the pair the next iteration takes from the queue, and the handles the
\* Mapping resolves its members to
StepPair == call.to_visit[1]

StepParent == MappingGet(Cur, call.updated, StepPair[2])

StepChild == MappingGet(Cur, call.updated, StepPair[1])

\* the keys the next iteration adds to the store and leaves there
StepAdded == DOMAIN update_step(CallLoop, last.value, "stale").S.vertices \ Keys

\* the child list with every old replaced by new, where it stands
Replace(children, old, new) ==
    [i \in DOMAIN children |-> IF children[i] = old THEN new ELSE children[i]]

\* the child list without its entries old and new
Others(children, old, new) ==
    SelectSeq(children, LAMBDA k : k /= old /\ k /= new)

\* an iteration is about to rebuild a stored parent for a stored child
Rebuilding ==
    /\ call.active
    /\ call.to_visit /= <<>>
    /\ StepParent \in Keys
    /\ StepChild \in Keys

\* C32: the child list of a rebuilt ancestor is the old parent's child list
\* with the old child's key replaced by the new child's key at its position,
\* without a duplicate key and with the other keys in their order (stated
\* for a payload edit in a consistent store)
C32_RebuiltChildList ==
    (PayloadEdit /\ Rebuilding)
    => \A k \in StepAdded :
          /\ Others(k[2], StepPair[1], StepChild)
                = Others(vertices[StepParent].children, StepPair[1], StepChild)
          /\ \A i, j \in DOMAIN k[2] : k[2][i] = k[2][j] => i = j
          /\ StepPair[1] \notin Range(k[2])
          /\ k[2] = Replace(vertices[StepParent].children, StepPair[1], StepChild)

\* the replacement recorded last for x by the calls of set in the log, of
\* those whose two handles differ; END when there is none
RECURSIVE LastSet(_, _)
LastSet(log, x) ==
    IF log = <<>> THEN END
    ELSE LET e == log[Len(log)]
         IN  IF e[1] = x /\ e[2] /= x THEN e[2]
             ELSE LastSet(SubSeq(log, 1, Len(log) - 1), x)

\* what get(x) is to return after the calls of set in the log
Resolved(log, x) ==
    IF LastSet(log, x) = END THEN x
    ELSE IF LastSet(log, x) \in Keys THEN LastSet(log, x) ELSE END

\* the handles the next iteration passes to get that designate a stored vertex
Asked == IF call.active /\ call.to_visit /= <<>>
         THEN {StepPair[1], StepPair[2]} \cap Keys ELSE {}

\* C33: a set with twice the same handle records nothing; get(x) returns x
\* when no replacement was recorded for x, and otherwise the handle of the
\* vertex stored under the key of the replacement recorded last, or end()
\* when none is stored under it
C33_VersionMapping ==
    (call.active /\ ~crashed)
    => /\ \A x \in DOMAIN call.updated : call.updated[x] /= x
       /\ \A i \in DOMAIN call.sets :
             (call.sets[i][1] = call.sets[i][2]
                 /\ LastSet(call.sets, call.sets[i][1]) = END)
             => call.sets[i][1] \notin DOMAIN call.updated
       /\ \A x \in Asked :
             MappingGet(Cur, call.updated, x) = Resolved(call.sets, x)

\* a handle is looked up for which two different replacements were recorded,
\* and another for which none was
C33_Witness ==
    /\ call.active
    /\ ~crashed
    /\ \E x \in Asked :
          /\ \E i, j \in DOMAIN call.sets :
                /\ i < j
                /\ call.sets[i][1] = x /\ call.sets[j][1] = x
                /\ call.sets[i][2] /= call.sets[j][2]
                /\ call.sets[i][2] /= x /\ call.sets[j][2] /= x
          /\ MappingGet(Cur, call.updated, x) /= x
    /\ \E y \in Asked : y \notin DOMAIN call.updated

\* the pairs a step of update has put on the queue: all of them at the entry
\* of the call, those behind the pairs that were waiting after an iteration
Pushed ==
    IF ~call.active THEN call'.to_visit
    ELSE SubSeq(call'.to_visit, Len(call.to_visit), Len(call'.to_visit))

\* the filter, in the state the step has left: the child is not the root,
\* the parent is neither the new value nor one of its children, and the
\* parent is referenced or is the root
Passes(e) ==
    /\ e[1] /= trees'[last'.tree]
    /\ e[2] /= self_edge(last'.value)
    /\ e[2] \notin Range(last'.value.children)
    /\ (RefCount(edges', e[2]) > 0 \/ e[2] = trees'[last'.tree])

\* C34: every pair a step of update puts on the queue passes the filter, and
\* an iteration that leaves a rebuilt vertex in the store rebuilds a parent
\* that is referenced or is this Tree's root; a parent without referrers
\* that is not the root is neither queued nor rebuilt
C34_ParentFilter ==
    [][/\ (call'.active /\ ~crashed')
            => \A i \in DOMAIN Pushed : Passes(Pushed[i])
       /\ (call.active /\ ~crashed /\ call.to_visit /= <<>> /\ StepAdded /= {})
            => (RefCount(edges, StepPair[2]) > 0 \/ StepPair[2] = trees[last.tree])]_vars

\* update has queued a parent of the edited vertex and has passed over
\* another parent of it, the unreferenced root of another Tree
C34_Witness ==
    /\ call.active
    /\ ~crashed
    /\ call.to_visit /= <<>>
    /\ \E u \in DOMAIN trees \ {last.tree} :
          /\ trees[u] /= trees[last.tree]
          /\ trees[u] \in ParentsOf(vertices, last.source)
          /\ RefCount(edges, trees[u]) = 0
          /\ \A i \in DOMAIN call.to_visit : call.to_visit[i][2] /= trees[u]
          /\ \A k \in Keys \ DOMAIN last.vertices : k[1] /= trees[u][1]

(* claims on the insert overloads of Tree and on the edge index *)
\* the list with every key kept at its first place only
RECURSIVE FirstOccurrences(_)
FirstOccurrences(s) ==
    IF s = <<>> THEN <<>>
    ELSE LET front == FirstOccurrences(SubSeq(s, 1, Len(s) - 1))
         IN  IF s[Len(s)] \in Range(front) THEN front ELSE Append(front, s[Len(s)])

EdgeOccurrences(es, e) == Cardinality({i \in DOMAIN es : es[i] = e})

\* the last operation was Tree::insert(parent, child) or insert(parent, edge)
InsertedChild == last.op \in {"insertChild", "insertEdge"}

\* C35: insert(parent, child) and insert(parent, edge) hand update a value with
\* the parent's payload whose child list is the parent's list without
\* duplicates, plus the child's key at the end only if it was absent; when the
\* child was present already (in a consistent store the list is then
\* unchanged, and the child is one of its keys) the store holds afterwards at
\* most one edge from the child to each parent
C35_InsertChild ==
    InsertedChild
    => LET old == last.vertices[last.source].children
           new == last.value.children
       IN  /\ last.value.payload = last.vertices[last.source].payload
           /\ \E key \in DOMAIN last.vertices :
                 new = IF key \in Range(old) THEN FirstOccurrences(old)
                       ELSE Append(FirstOccurrences(old), key)
           /\ (~crashed /\ PreSound /\ new = old /\ old /= <<>>)
                 => \E c \in Range(old) :
                       \A p \in Keys : EdgeOccurrences(edges, <<c, p>>) <= 1

\* the store with the first occurrence of edge e taken out of the index
WithoutOne(S, e) ==
    LET pos == CHOOSE i \in DOMAIN S.edges :
                   S.edges[i] = e /\ \A j \in 1..(i - 1) : S.edges[j] /= e
    IN  [S EXCEPT !.edges = RemoveAt(S.edges, pos)]

\* C37: for every pair of stored keys, erasing the edge (child, parent) when
\* it is not in the index changes nothing; erasing it when it is there takes
\* one occurrence out and, when no edge names child any more, erases child
\* as erase(handle) would; inserting it when it is there changes nothing and
\* reports that nothing was inserted
C37_EdgeOperations ==
    ~crashed
    => \A c \in Keys, p \in Keys :
          LET e == <<c, p>>
              n == EdgeOccurrences(edges, e)
          IN  /\ n = 0 => erase_edge(Cur, e) = Cur
              /\ n > 0 => /\ insert_edge(Cur, e) = Cur
                          /\ ~insert_edge_inserted(Cur, e)
                          /\ erase_edge(Cur, e) =
                                IF count(WithoutOne(Cur, e), c) = 0
                                THEN erase(WithoutOne(Cur, e), c)
                                ELSE WithoutOne(Cur, e)

\* the last operation was insert(vertex) with a key that was stored
InsertedAgain ==
    /\ last.op = "insert"
    /\ ~crashed
    /\ NewKey \in DOMAIN last.vertices

\* C39: insert(vertex) under a key that is stored keeps the stored vertex,
\* reports that nothing was inserted and leaves the whole store as it was:
\* no edge is added, the count of every key is what it was
C39_InsertStoredKey ==
    InsertedAgain
    => /\ vertices = last.vertices
       /\ ~insert_inserted(Store(last.vertices, last.edges, FALSE), last.value)
       /\ last.ret = NewKey
       /\ edges = last.edges
       /\ \A k \in Keys \cup EdgeKeys(edges) \cup EdgeKeys(last.edges) :
             RefCount(edges, k) = RefCount(last.edges, k)

(* termination *)
\* the store with one more edge, from a parent back to one of its children:
\* together with the edge from the child to the parent a cycle in the index
Backward(S) ==
    {S} \cup {insert_edge(S, <<S.edges[i][2], S.edges[i][1]>>) : i \in DOMAIN S.edges}

\* the cascade started at position pos of the index of S, cut off one
\* iteration after as many iterations as the index has edges
Drain(S, pos) == erase_cascade_run(Cascade(S, <<pos>>, 0), Len(S.edges) + 1)

C36_UpdateTerminates ==
    (call.active /\ ~crashed /\ call.to_visit /= <<>>) => call.steps < MaxIterations

\* a call has returned that edited a vertex with two parents, built
\* vertices of its own and made three or more iterations
C36_Witness ==
    /\ ~call.active
    /\ ~crashed
    /\ last.op = "update"
    /\ Cardinality(ParentsOf(last.vertices, last.source)) >= 2
    /\ Cardinality(call.built) >= 3
    /\ call.steps >= 3

(* the assertion of the cascade *)
\* the positions of the index at which the next operation can start a
\* cascade: the edge (k, k) of a Pin, which its release erases, and the first
\* edge to a child of an unreferenced vertex, which erase(handle) erases
Startable ==
    {pos \in DOMAIN edges :
        \/ \E i \in DOMAIN guards :
              /\ guards[i].attached
              /\ pos = find_edge(edges, <<guards[i].key, guards[i].key>>)
        \/ \E k \in Keys :
              /\ count(Cur, k) = 0
              /\ vertices[k].children /= <<>>
              /\ pos = find_edge(edges, <<vertices[k].children[1], k>>)}

\* C40: no cascade that the next store operation can start takes from its
\* queue a position that is not in the index: every edge (grandchild, vertex)
\* looked up for a child of an erased vertex is found (position 0 is
\* end()), and none is queued twice (the second copy names an erased edge)
C40_CascadeAssertion ==
    ~crashed => \A pos \in Startable : ~Drain(Cur, pos).S.crashed

====
